---- MODULE Spec2Model ----
(***************************************************************************)
(* OCT - Open Clinical Terminology Tool (tools/oct.py).                    *)
(*                                                                         *)
(* The three click commands `new`, `search` and `similar` run against one  *)
(* target directory.  Strings are sequences of one-character strings, a    *)
(* directory is a function from entry names to entries, and the standard   *)
(* output of an invocation is the sequence of lines it has echoed.         *)
(***************************************************************************)
EXTENDS Integers, Sequences, FiniteSets, TLC

VARIABLES
    dirExists,      \* the target directory exists
    dir,            \* its immediate entries: name -> entry
    pc,             \* per process: position in the command it runs
    cmd,            \* per process: the subcommand it was invoked with
    attempt,        \* new: loop variable of `for attempt in range(max_attempts)`
    identifier,     \* new: the candidate that passed the existence check
    namedEntry,     \* new: did `identifier` name a directory entry when accepted
    dirAtStart,     \* new: the directory's entries when the invocation began
    out,            \* per process: lines echoed by the current invocation
    query,          \* search / similar: QUERY argument
    threshold,      \* similar: --threshold
    listing,        \* search / similar: what search_dir.glob("*") yields, in order
    idx,            \* search / similar: how many entries of listing were visited
    found,          \* search / similar: local `found`
    filepaths,      \* similar: local `filepaths`
    texts,          \* similar: local `texts`
    similarities    \* similar: local `similarities`

vars == <<dirExists, dir, pc, cmd, attempt, identifier, namedEntry, dirAtStart, out,
          query, threshold, listing, idx, found, filepaths, texts, similarities>>

newVars == <<attempt, identifier, namedEntry, dirAtStart>>
scanVars == <<query, threshold, listing, idx, found, filepaths, texts, similarities>>

(***************************************************************************)
(* Bounds of the model.                                                    *)
(***************************************************************************)
\* outcomes of the random source that are explored: the first MaxDraw of the
\* 32^6 equiprobable identifiers
MaxDraw == 3
\* similarity scores are points of the ordered scale 0..MaxScore
MaxScore == 2

Procs == {1, 2}

(***************************************************************************)
(* Identifier generation.                                                  *)
(***************************************************************************)
CROCKFORD_BASE32 ==
    << "0", "1", "2", "3", "4", "5", "6", "7", "8", "9",
       "A", "B", "C", "D", "E", "F", "G", "H", "J", "K",
       "M", "N", "P", "Q", "R", "S", "T", "V", "W", "X", "Y", "Z" >>

RECURSIVE Pow(_, _)
Pow(b, e) == IF e = 0 THEN 1 ELSE b * Pow(b, e - 1)

\* the i-th call of secrets.choice(CROCKFORD_BASE32) in outcome number n
SecretsChoice(n, i, length) ==
    CROCKFORD_BASE32[((n \div Pow(Len(CROCKFORD_BASE32), length - i))
                        % Len(CROCKFORD_BASE32)) + 1]

\* the identifiers generate_crockford_base32_id(length) can return
generate_crockford_base32_id(length) ==
    { [i \in 1..length |-> SecretsChoice(n, i, length)] : n \in 0..(MaxDraw - 1) }

DefaultLength == 6

(***************************************************************************)
(* The file system.                                                        *)
(***************************************************************************)
FileEntry(content) == [kind |-> "file", readable |-> TRUE, content |-> content]
UnreadableEntry == [kind |-> "file", readable |-> FALSE, content |-> <<>>]
DirEntry == [kind |-> "dir", readable |-> FALSE, content |-> <<>>]
BrokenLinkEntry == [kind |-> "broken_link", readable |-> FALSE, content |-> <<>>]

EmptyDir == [n \in {} |-> FileEntry(<<>>)]

\* Path.exists(): follows symbolic links, so a link whose target is missing
\* does not exist
PathExists(d, name) == name \in DOMAIN d /\ d[name].kind # "broken_link"

\* Path.is_file(): a regular file (or a link to one)
PathIsFile(d, name) == name \in DOMAIN d /\ d[name].kind = "file"

WithEntry(d, name, e) ==
    [n \in DOMAIN d \cup {name} |-> IF n = name THEN e ELSE d[n]]

\* Path.touch(exist_ok=True) when it succeeds: an existing path only has its
\* times updated; otherwise an empty file is created (through a broken link,
\* at the link's target, after which the link resolves to that file)
PathTouch(d, name) ==
    IF PathExists(d, name) THEN d ELSE WithEntry(d, name, FileEntry(<<>>))

\* exist_ok=False: FileExistsError for every name the directory holds
PathTouchExclusive(d, name) == IF name \in DOMAIN d THEN {TRUE} ELSE {FALSE}

\* Can Path.touch(exist_ok=True) raise?  No error is raised for a path that
\* exists (exist_ok) or for a fresh name; creating through a broken link
\* raises FileNotFoundError when the directory of the link's target is
\* missing, and succeeds otherwise
PathTouchRaises(d, name) ==
    IF name \in DOMAIN d /\ d[name].kind = "broken_link"
    THEN {TRUE, FALSE} ELSE {FALSE}

(***************************************************************************)
(* Output lines.                                                           *)
(***************************************************************************)
Line(t, name, content, score) ==
    [t |-> t, name |-> name, content |-> content, score |-> score]

Msg(t) == Line(t, <<>>, <<>>, 0)

Echo(p, line) == out' = [out EXCEPT ![p] = Append(@, line)]

(***************************************************************************)
(* COMMAND: NEW                                                            *)
(***************************************************************************)
max_attempts == 1000

RangeOffByOne(n) == n > max_attempts

\* `for attempt in range(max_attempts)` is over once `n` attempts were made
RangeExhausted(n) == n >= max_attempts

\* lines 60-73: resolve the target directory, mkdir(parents=True,
\* exist_ok=True), enter the loop
NewStart(p) ==
    /\ pc[p] = "idle"
    /\ cmd' = [cmd EXCEPT ![p] = "new"]
    /\ dirExists' = TRUE
    /\ dirAtStart' = [dirAtStart EXCEPT ![p] = dir]
    /\ attempt' = [attempt EXCEPT ![p] = 0]
    /\ pc' = [pc EXCEPT ![p] = IF RangeExhausted(0) THEN "exhausted" ELSE "loop"]
    /\ UNCHANGED <<dir, identifier, namedEntry, out, scanVars>>

\* lines 74-79, one iteration: generate a candidate and test filepath.exists()
NewCheck(p) ==
    /\ pc[p] = "loop"
    /\ \E id \in generate_crockford_base32_id(DefaultLength) :
          IF ~PathExists(dir, id)
          THEN /\ identifier' = [identifier EXCEPT ![p] = id]
               /\ namedEntry' = [namedEntry EXCEPT ![p] = id \in DOMAIN dir]
               /\ pc' = [pc EXCEPT ![p] = "touch"]
               /\ UNCHANGED attempt
          ELSE /\ attempt' = [attempt EXCEPT ![p] = @ + 1]
               /\ pc' = [pc EXCEPT ![p] =
                            IF RangeExhausted(attempt[p] + 1)
                            THEN "exhausted" ELSE "loop"]
               /\ UNCHANGED <<identifier, namedEntry>>
    /\ UNCHANGED <<dirExists, dir, cmd, dirAtStart, out, scanVars>>

\* lines 80-84: filepath.touch(), the two echoes, return; an exception of
\* touch() is not caught and ends the process
NewTouch(p) ==
    /\ pc[p] = "touch"
    /\ \E raised \in PathTouchRaises(dir, identifier[p]) :
          IF raised
          THEN /\ pc' = [pc EXCEPT ![p] = "error"]
               /\ UNCHANGED <<dir, out>>
          ELSE /\ dir' = PathTouch(dir, identifier[p])
               /\ out' = [out EXCEPT ![p] =
                             @ \o << Line("created", identifier[p], <<>>, 0),
                                     Line("concept_id", identifier[p], <<>>, 0) >>]
               /\ pc' = [pc EXCEPT ![p] = "done"]
    /\ UNCHANGED <<dirExists, cmd, newVars, scanVars>>

\* lines 86-91: the error message on stderr and exit(1)
NewExhausted(p) ==
    /\ pc[p] = "exhausted"
    /\ Echo(p, Msg("error_exhausted"))
    /\ pc' = [pc EXCEPT ![p] = "exit1"]
    /\ UNCHANGED <<dirExists, dir, cmd, newVars, scanVars>>

\* the process has ended; the user may invoke the tool again
Finished(p) == pc[p] \in {"done", "exit1", "error"}

NextInvocation(p) ==
    /\ Finished(p)
    /\ pc' = [pc EXCEPT ![p] = "idle"]
    /\ cmd' = [cmd EXCEPT ![p] = "none"]
    /\ out' = [out EXCEPT ![p] = <<>>]
    /\ attempt' = [attempt EXCEPT ![p] = 0]
    /\ identifier' = [identifier EXCEPT ![p] = <<>>]
    /\ namedEntry' = [namedEntry EXCEPT ![p] = FALSE]
    /\ dirAtStart' = [dirAtStart EXCEPT ![p] = EmptyDir]
    /\ UNCHANGED <<dirExists, dir, scanVars>>

(***************************************************************************)
(* Strings.                                                                *)
(***************************************************************************)
UpperLetters ==
    << "A", "B", "C", "D", "E", "F", "G", "H", "I", "J", "K", "L", "M",
       "N", "O", "P", "Q", "R", "S", "T", "U", "V", "W", "X", "Y", "Z" >>

LowerLetters ==
    << "a", "b", "c", "d", "e", "f", "g", "h", "i", "j", "k", "l", "m",
       "n", "o", "p", "q", "r", "s", "t", "u", "v", "w", "x", "y", "z" >>

Digits == {"0", "1", "2", "3", "4", "5", "6", "7", "8", "9"}

LowerChar(c) ==
    IF \E k \in 1..Len(UpperLetters) : UpperLetters[k] = c
    THEN LowerLetters[CHOOSE k \in 1..Len(UpperLetters) : UpperLetters[k] = c]
    ELSE c

\* str.lower()
StrLower(s) == [i \in 1..Len(s) |-> LowerChar(s[i])]

\* `sub in s`
StrContains(sub, s) ==
    \E i \in 0..(Len(s) - Len(sub)) : SubSeq(s, i + 1, i + Len(sub)) = sub

IsSpace(c) == c \in {" ", "\n", "\t"}

\* str.strip()
StrStrip(s) ==
    LET keep == {i \in 1..Len(s) : ~IsSpace(s[i])}
    IN  IF keep = {} THEN <<>>
        ELSE SubSeq(s, CHOOSE i \in keep : \A j \in keep : i <= j,
                       CHOOSE i \in keep : \A j \in keep : i >= j)

\* the orders in which the entries of a set can be enumerated
Orders(S) ==
    {f \in [1..Cardinality(S) -> S] : \A i, j \in 1..Cardinality(S) : f[i] = f[j] => i = j}

(***************************************************************************)
(* COMMAND: SEARCH                                                         *)
(***************************************************************************)
Queries == { <<"a">>, <<"A", "B">>, <<"c", "d">> }

DirMissingIgnored(exists) == FALSE

\* lines 114 and 163: `if not search_dir.exists()`
DirMissing(exists) == ~exists

\* line 119
NameMatches(q, name) == StrContains(StrLower(q), StrLower(name))

\* line 125
ContentMatches(q, content) == StrContains(StrLower(q), StrLower(content))

\* `if` in place of `elif`: the content is scanned whatever the name
SearchEntryLinesIndependent(q, d, name) ==
    (IF NameMatches(q, name)
     THEN << Line("found_by_filename", name, <<>>, 0) >> ELSE <<>>)
    \o (IF PathIsFile(d, name)
        THEN IF ~d[name].readable
             THEN << Line("could_not_read", name, <<>>, 0) >>
             ELSE IF ContentMatches(q, d[name].content)
             THEN << Line("content_match", name, d[name].content, 0) >>
             ELSE <<>>
        ELSE <<>>)

\* `except Exception: pass`: a failed read is dropped without a word
SearchEntryLinesSilent(q, d, name) ==
    IF NameMatches(q, name)
    THEN << Line("found_by_filename", name, <<>>, 0) >>
    ELSE IF PathIsFile(d, name) /\ d[name].readable
              /\ ContentMatches(q, d[name].content)
    THEN << Line("content_match", name, d[name].content, 0) >>
    ELSE <<>>

\* lines 119-129 for one entry: the lines echoed
SearchEntryLines(q, d, name) ==
    IF NameMatches(q, name)
    THEN << Line("found_by_filename", name, <<>>, 0) >>
    ELSE IF PathIsFile(d, name)
    THEN IF ~d[name].readable
         THEN << Line("could_not_read", name, <<>>, 0) >>
         ELSE IF ContentMatches(q, d[name].content)
         THEN << Line("content_match", name, d[name].content, 0) >>
         ELSE <<>>
    ELSE <<>>

\* lines 119-129 for one entry: is `found` set
SearchEntryFound(q, d, name) ==
    \/ NameMatches(q, name)
    \/ /\ PathIsFile(d, name)
       /\ d[name].readable
       /\ ContentMatches(q, d[name].content)

\* lines 108-117: the directory test and the start of the glob
SearchStart(p) ==
    /\ pc[p] = "idle"
    /\ cmd' = [cmd EXCEPT ![p] = "search"]
    /\ \E q \in Queries : query' = q
    /\ IF DirMissing(dirExists)
       THEN /\ Echo(p, Msg("directory_not_found"))
            /\ pc' = [pc EXCEPT ![p] = "done"]
            /\ UNCHANGED <<listing, idx, found>>
       ELSE /\ \E order \in Orders(DOMAIN dir) : listing' = order
            /\ idx' = 0
            /\ found' = FALSE
            /\ pc' = [pc EXCEPT ![p] = "search_loop"]
            /\ UNCHANGED out
    /\ UNCHANGED <<dirExists, dir, newVars, threshold, filepaths, texts, similarities>>

\* lines 118-129: one iteration of the loop over the glob
SearchFile(p) ==
    /\ pc[p] = "search_loop"
    /\ idx < Len(listing)
    /\ out' = [out EXCEPT ![p] = @ \o SearchEntryLines(query, dir, listing[idx + 1])]
    /\ found' = (found \/ SearchEntryFound(query, dir, listing[idx + 1]))
    /\ idx' = idx + 1
    /\ UNCHANGED <<dirExists, dir, pc, cmd, newVars, query, threshold, listing,
                   filepaths, texts, similarities>>

\* lines 130-131: after the loop
SearchEnd(p) ==
    /\ pc[p] = "search_loop"
    /\ idx = Len(listing)
    /\ IF found THEN UNCHANGED out ELSE Echo(p, Msg("no_matches"))
    /\ pc' = [pc EXCEPT ![p] = "done"]
    /\ UNCHANGED <<dirExists, dir, cmd, newVars, scanVars>>

(***************************************************************************)
(* COMMAND: SIMILAR                                                        *)
(***************************************************************************)
Thresholds == 0..(MaxScore + 1)

IsWordChar(c) ==
    \/ c \in Digits
    \/ c = "_"
    \/ \E k \in 1..Len(LowerLetters) : c = LowerLetters[k] \/ c = UpperLetters[k]

\* TfidfVectorizer's default analyzer: lowercase, then the maximal runs of
\* two or more word characters (token_pattern (?u)\b\w\w+\b)
Tokens(s) ==
    LET l == StrLower(s)
    IN  { SubSeq(l, i, j) : <<i, j>> \in
            { ij \in (1..Len(l)) \X (1..Len(l)) :
                /\ ij[2] - ij[1] >= 1
                /\ \A k \in ij[1]..ij[2] : IsWordChar(l[k])
                /\ (ij[1] = 1 \/ ~IsWordChar(l[ij[1] - 1]))
                /\ (ij[2] = Len(l) \/ ~IsWordChar(l[ij[2] + 1])) } }

\* the vocabulary fitted on [query] + texts
Vocabulary(q, ts) == Tokens(q) \cup UNION {Tokens(ts[i]) : i \in 1..Len(ts)}

\* the values cosine_similarity(vectors[0:1], vectors[1:]).flatten() can take:
\* 0 for a document that shares no token with the query, a positive score
\* otherwise
CosineScores(q, ts) ==
    { f \in [1..Len(ts) -> 0..MaxScore] :
        \A i \in 1..Len(ts) : (f[i] = 0) <=> (Tokens(q) \cap Tokens(ts[i]) = {}) }

PassesStrictly(score, t) == score > t

\* line 194
Passes(score, t) == score >= t

\* sorted(..., key=lambda x: x[1], reverse=True): a stable sort by descending
\* score; Insert places a pair behind every pair whose score is not smaller
Insert(sorted, pair) ==
    LET ahead == {k \in 1..Len(sorted) : sorted[k][2] >= pair[2]}
        n == Cardinality(ahead)
    IN  SubSeq(sorted, 1, n) \o <<pair>> \o SubSeq(sorted, n + 1, Len(sorted))

RECURSIVE SortedByScore(_)
SortedByScore(pairs) ==
    IF pairs = <<>> THEN <<>>
    ELSE Insert(SortedByScore(SubSeq(pairs, 1, Len(pairs) - 1)), pairs[Len(pairs)])

\* zip(filepaths, similarities)
Zip(fs, sims) == [i \in 1..Len(fs) |-> <<fs[i], sims[i]>>]

\* lines 191-196: the result lines, in the order echoed
RECURSIVE ResultLines(_, _)
ResultLines(pairs, t) ==
    IF pairs = <<>> THEN <<>>
    ELSE (IF Passes(pairs[1][2], t)
          THEN << Line("result", pairs[1][1], <<>>, pairs[1][2]) >>
          ELSE <<>>) \o ResultLines(Tail(pairs), t)

\* lines 155-168: the directory test and the start of the glob
SimilarStart(p) ==
    /\ pc[p] = "idle"
    /\ cmd' = [cmd EXCEPT ![p] = "similar"]
    /\ \E q \in Queries : query' = q
    /\ \E t \in Thresholds : threshold' = t
    /\ IF DirMissing(dirExists)
       THEN /\ Echo(p, Msg("directory_not_found"))
            /\ pc' = [pc EXCEPT ![p] = "done"]
            /\ UNCHANGED <<listing, idx, filepaths, texts, similarities>>
       ELSE /\ \E order \in Orders(DOMAIN dir) : listing' = order
            /\ idx' = 0
            /\ filepaths' = <<>>
            /\ texts' = <<>>
            /\ similarities' = <<>>
            /\ pc' = [pc EXCEPT ![p] = "similar_read"]
            /\ UNCHANGED out
    /\ UNCHANGED <<dirExists, dir, newVars, found>>

\* lines 169-176: one iteration of the loop that reads the concept files
SimilarRead(p) ==
    /\ pc[p] = "similar_read"
    /\ idx < Len(listing)
    /\ LET name == listing[idx + 1]
       IN  IF ~PathIsFile(dir, name)
           THEN UNCHANGED <<filepaths, texts, out>>
           ELSE IF dir[name].readable
           THEN /\ filepaths' = Append(filepaths, name)
                /\ texts' = Append(texts, StrStrip(dir[name].content))
                /\ UNCHANGED out
           ELSE /\ Echo(p, Line("could_not_read", name, <<>>, 0))
                /\ UNCHANGED <<filepaths, texts>>
    /\ idx' = idx + 1
    /\ UNCHANGED <<dirExists, dir, pc, cmd, newVars, query, threshold, listing,
                   found, similarities>>

\* lines 178-187: the empty-corpus exit, or fit, transform and the scores;
\* fit raises ValueError (empty vocabulary) when no document has a token
SimilarFit(p) ==
    /\ pc[p] = "similar_read"
    /\ idx = Len(listing)
    /\ IF texts = <<>>
       THEN /\ Echo(p, Msg("no_readable_files"))
            /\ pc' = [pc EXCEPT ![p] = "done"]
            /\ UNCHANGED similarities
       ELSE IF Vocabulary(query, texts) = {}
       THEN /\ pc' = [pc EXCEPT ![p] = "error"]
            /\ UNCHANGED <<out, similarities>>
       ELSE /\ \E sims \in CosineScores(query, texts) : similarities' = sims
            /\ pc' = [pc EXCEPT ![p] = "similar_print"]
            /\ UNCHANGED out
    /\ UNCHANGED <<dirExists, dir, cmd, newVars, query, threshold, listing, idx,
                   found, filepaths, texts>>

\* lines 189-199: the ranked lines, or the below-threshold message
SimilarPrint(p) ==
    /\ pc[p] = "similar_print"
    /\ LET lines == ResultLines(SortedByScore(Zip(filepaths, similarities)), threshold)
       IN  /\ found' = (lines # <<>>)
           /\ out' = [out EXCEPT ![p] =
                         @ \o (IF lines # <<>> THEN lines
                               ELSE << Msg("no_similar_concepts") >>)]
    /\ pc' = [pc EXCEPT ![p] = "done"]
    /\ UNCHANGED <<dirExists, dir, cmd, newVars, query, threshold, listing, idx,
                   filepaths, texts, similarities>>

(***************************************************************************)
(* search and similar invocations on a directory whose entries are named   *)
(* from NamePool.                                                          *)
(***************************************************************************)
NamePool == { <<"A", "B">>, <<"C", "D">>, <<"E", "F">> }

ScanTexts == { <<>>, <<"a", "b">>, <<" ", "A", "b", " ", "c">> }

ScanEntries == {FileEntry(t) : t \in ScanTexts} \cup {UnreadableEntry, DirEntry}

ScanDirs == UNION { [S -> ScanEntries] : S \in SUBSET NamePool }

(***************************************************************************)
(* Sequential `new` invocations on a directory that already holds some of  *)
(* the identifiers the generator can return.                               *)
(***************************************************************************)
NewEntries == {FileEntry(<<>>), DirEntry, BrokenLinkEntry}

NewDirs ==
    UNION { [S -> NewEntries] : S \in SUBSET generate_crockford_base32_id(DefaultLength) }

InitLocals ==
    /\ pc = [p \in Procs |-> "idle"]
    /\ cmd = [p \in Procs |-> "none"]
    /\ attempt = [p \in Procs |-> 0]
    /\ identifier = [p \in Procs |-> <<>>]
    /\ namedEntry = [p \in Procs |-> FALSE]
    /\ dirAtStart = [p \in Procs |-> EmptyDir]
    /\ out = [p \in Procs |-> <<>>]
    /\ query = <<>>
    /\ threshold = 0
    /\ listing = <<>>
    /\ idx = 0
    /\ found = FALSE
    /\ filepaths = <<>>
    /\ texts = <<>>
    /\ similarities = <<>>

InitNew ==
    /\ dirExists \in BOOLEAN
    /\ dir \in NewDirs
    /\ (~dirExists => dir = EmptyDir)
    /\ InitLocals

NextNew ==
    \/ NewStart(1)
    \/ NewCheck(1)
    \/ NewTouch(1)
    \/ NewExhausted(1)
    \/ NextInvocation(1)

SpecNew == InitNew /\ [][NextNew]_vars

(***************************************************************************)
(* Two concurrent `new` invocations, one per process, on a directory that  *)
(* starts empty (or absent).                                               *)
(***************************************************************************)
InitConc ==
    /\ dirExists \in BOOLEAN
    /\ dir = EmptyDir
    /\ InitLocals

NextConc ==
    \E p \in Procs :
        \/ NewStart(p)
        \/ NewCheck(p)
        \/ NewTouch(p)
        \/ NewExhausted(p)

SpecConc == InitConc /\ [][NextConc]_vars

InitScan ==
    /\ dirExists \in BOOLEAN
    /\ dir \in ScanDirs
    /\ (~dirExists => dir = EmptyDir)
    /\ InitLocals

ScanReturn(p) ==
    /\ Finished(p)
    /\ pc' = [pc EXCEPT ![p] = "idle"]
    /\ cmd' = [cmd EXCEPT ![p] = "none"]
    /\ out' = [out EXCEPT ![p] = <<>>]
    /\ query' = <<>>
    /\ threshold' = 0
    /\ listing' = <<>>
    /\ idx' = 0
    /\ found' = FALSE
    /\ filepaths' = <<>>
    /\ texts' = <<>>
    /\ similarities' = <<>>
    /\ UNCHANGED <<dirExists, dir, newVars>>

NextScan ==
    \/ SearchStart(1)
    \/ SearchFile(1)
    \/ SearchEnd(1)
    \/ SimilarStart(1)
    \/ SimilarRead(1)
    \/ SimilarFit(1)
    \/ SimilarPrint(1)
    \/ ScanReturn(1)

SpecScan == InitScan /\ [][NextScan]_vars

(***************************************************************************)
(* Properties of `new`.                                                    *)
(***************************************************************************)
Reports(p, id) ==
    out[p] = << Line("created", id, <<>>, 0), Line("concept_id", id, <<>>, 0) >>

\* C1 (as claimed): every identifier a sequential `new` returns named no entry
\* of the target directory when it was accepted, was not a filename present
\* when the invocation began, and names a file of the directory on return.
C1_ReturnedNamedNoEntry ==
    \A p \in Procs :
        pc[p] = "done" =>
            /\ ~namedEntry[p]
            /\ identifier[p] \notin DOMAIN dirAtStart[p]
            /\ PathIsFile(dir, identifier[p])
            /\ Reports(p, identifier[p])

\* C2: `new` makes at most 1000 attempts; it stops with the exhaustion error
\* exactly when 1000 attempts have collided, printing only the error and
\* leaving the entries of the directory as they were when it began.
C2_ExhaustedAfterExactly1000 ==
    \A p \in Procs :
        /\ attempt[p] <= 1000
        /\ (pc[p] \in {"loop", "touch", "done"} => attempt[p] < 1000)
        /\ (pc[p] \in {"exhausted", "exit1"} =>
                attempt[p] = 1000 /\ dir = dirAtStart[p])
        /\ (pc[p] = "exhausted" => out[p] = <<>>)
        /\ (pc[p] = "exit1" => out[p] = << Msg("error_exhausted") >>)

\* C2 witness: an invocation ended with exit status 1 after 1000 collisions.
C2_Witness == pc[1] = "exit1" /\ attempt[1] = 1000

AmbiguousChars == {"0", "O", "1", "I", "L", "U"}

\* C6 (as claimed): every generated identifier has 6 characters, each from an
\* alphabet of 32 distinct symbols, and none of them is 0, O, 1, I, L or U.
C6_NoAmbiguousCharacters ==
    \A p \in Procs :
        pc[p] \in {"touch", "done"} =>
            /\ Len(identifier[p]) = 6
            /\ Cardinality({CROCKFORD_BASE32[k] : k \in 1..Len(CROCKFORD_BASE32)}) = 32
            /\ \A i \in 1..Len(identifier[p]) :
                  /\ \E k \in 1..Len(CROCKFORD_BASE32) :
                        identifier[p][i] = CROCKFORD_BASE32[k]
                  /\ identifier[p][i] \notin AmbiguousChars

\* C10: nothing makes the existence check and the creation one step, so a
\* process that saw its candidate absent always completes and reports that
\* identifier, whether or not another process created the file meanwhile.
C10_CheckThenActNeverFails ==
    \A p \in Procs :
        /\ pc[p] # "error"
        /\ (pc[p] = "done" =>
                Reports(p, identifier[p]) /\ identifier[p] \in DOMAIN dir)

\* C10 witness: both processes saw the same candidate absent and both
\* reported success with it.
C10_Witness ==
    /\ pc[1] = "done" /\ pc[2] = "done"
    /\ identifier[1] = identifier[2]
    /\ ~namedEntry[1] /\ ~namedEntry[2]
    /\ Reports(1, identifier[1]) /\ Reports(2, identifier[2])

(***************************************************************************)
(* Properties of search and similar.                                       *)
(***************************************************************************)
LinesOf(p, t) == SelectSeq(out[p], LAMBDA l : l.t = t)

HasLine(p, t, name) == \E k \in 1..Len(out[p]) : out[p][k].t = t /\ out[p][k].name = name

\* position of an entry in the enumeration of the directory
Pos(name) == CHOOSE i \in 1..Len(listing) : listing[i] = name

Unreadable(name) == PathIsFile(dir, name) /\ ~dir[name].readable

Readable(name) == PathIsFile(dir, name) /\ dir[name].readable

\* C3: the lines `similar` prints are exactly the documents whose score is at
\* least the threshold, each with its score, by non-increasing score, and
\* documents of equal score in the order the directory enumerated them.
C3_RankedResults ==
    (cmd[1] = "similar" /\ Finished(1)) =>
        LET R == LinesOf(1, "result")
            qualifying == {i \in 1..Len(similarities) : similarities[i] >= threshold}
        IN  /\ Len(R) = Cardinality(qualifying)
            /\ \A i \in qualifying :
                  \E k \in 1..Len(R) :
                      R[k].name = filepaths[i] /\ R[k].score = similarities[i]
            /\ \A k, l \in 1..Len(R) :
                  k < l =>
                      /\ R[k].score >= R[l].score
                      /\ (R[k].score = R[l].score => Pos(R[k].name) < Pos(R[l].name))

\* C3 witness: two documents tie exactly at the threshold and are both
\* printed, in enumeration order, while a third scores lower and is left out.
C3_Witness ==
    /\ cmd[1] = "similar" /\ pc[1] = "done"
    /\ Len(similarities) = 3
    /\ \E i \in 1..3 : similarities[i] < threshold
    /\ LET R == LinesOf(1, "result")
       IN  /\ Len(R) = 2
           /\ R[1].score = threshold /\ R[2].score = threshold
           /\ Pos(R[1].name) < Pos(R[2].name)

\* C4 (as claimed): search reports every readable file whose content holds
\* the query as a content match, whether or not its filename matches too.
C4_IndependentCriteria ==
    (cmd[1] = "search" /\ pc[1] = "done" /\ dirExists) =>
        \A name \in DOMAIN dir :
            (Readable(name) /\ ContentMatches(query, dir[name].content))
                => HasLine(1, "content_match", name)

\* C4 (amended): search reports an entry by filename exactly when its name
\* holds the query, and as a content match exactly when its name does not
\* hold the query and it is a readable file whose content holds it; an entry
\* matching both is reported by filename only.
C4_FilenameFirst ==
    (cmd[1] = "search" /\ pc[1] = "done" /\ dirExists) =>
        \A name \in DOMAIN dir :
            /\ HasLine(1, "found_by_filename", name) <=> NameMatches(query, name)
            /\ HasLine(1, "content_match", name) <=>
                  (/\ ~NameMatches(query, name)
                   /\ Readable(name)
                   /\ ContentMatches(query, dir[name].content))

\* C4 witness: a file matches by name and by content and has only the
\* filename line.
C4_Witness ==
    /\ cmd[1] = "search" /\ pc[1] = "done"
    /\ \E name \in DOMAIN dir :
          /\ Readable(name)
          /\ NameMatches(query, name)
          /\ ContentMatches(query, dir[name].content)
          /\ HasLine(1, "found_by_filename", name)
          /\ ~HasLine(1, "content_match", name)

\* C5 (as claimed): search and similar never end in an uncaught error.
C5_NoUncaughtError ==
    \A p \in Procs : cmd[p] \in {"search", "similar"} => pc[p] # "error"

\* C7: on a missing directory search and similar print the directory-not-found
\* line and nothing else, return normally, and leave the directory missing.
C7_DirectoryNotFound ==
    \A p \in Procs :
        cmd[p] \in {"search", "similar"} =>
            /\ ~dirExists =>
                  /\ pc[p] = "done"
                  /\ out[p] = << Msg("directory_not_found") >>
                  /\ dir = EmptyDir
            /\ HasLine(p, "directory_not_found", <<>>) => ~dirExists

\* C7 witness: an invocation on a missing directory has returned.
C7_Witness ==
    /\ ~dirExists
    /\ cmd[1] \in {"search", "similar"}
    /\ pc[1] = "done"
    /\ out[1] = << Msg("directory_not_found") >>

\* C8 (as claimed): a similar invocation on an existing directory ends in
\* exactly one of three outcomes: "no readable files" iff no file could be
\* read; else "no similar concepts" iff no document reaches the threshold;
\* else at least one result line and neither message.
C8_ThreeOutcomes ==
    (cmd[1] = "similar" /\ Finished(1) /\ dirExists) =>
        LET noReadable == HasLine(1, "no_readable_files", <<>>)
            noSimilar == HasLine(1, "no_similar_concepts", <<>>)
            results == LinesOf(1, "result") # <<>>
            readable == {name \in DOMAIN dir : Readable(name)}
        IN  /\ pc[1] = "done"
            /\ noReadable <=> (readable = {})
            /\ noSimilar <=>
                  (/\ readable # {}
                   /\ \A i \in 1..Len(similarities) : similarities[i] < threshold)
            /\ results <=> (~noReadable /\ ~noSimilar)

RECURSIVE SearchLines(_, _, _)
SearchLines(q, d, names) ==
    IF names = <<>> THEN <<>>
    ELSE SearchEntryLines(q, d, Head(names)) \o SearchLines(q, d, Tail(names))

\* the directory with its unreadable files taken out of the content scan
WithoutUnreadable(d) ==
    [n \in DOMAIN d |-> IF d[n].kind = "file" /\ ~d[n].readable THEN DirEntry ELSE d[n]]

NotWarning(l) == l.t # "could_not_read"

\* what search prints for a directory: the lines of its entries, or the
\* no-matches line
SearchOutput(q, d, names) ==
    IF SearchLines(q, d, names) = <<>> THEN << Msg("no_matches") >>
    ELSE SearchLines(q, d, names)

\* the readable files among the first n entries of the listing, in order
ReadableUpTo(n) == SelectSeq(SubSeq(listing, 1, n), Readable)

\* the unreadable files among the entries of the listing, in order
UnreadableListed == SelectSeq(listing, Unreadable)

\* C9 (as claimed): in search and in similar every unreadable file gets a
\* warning, and the scan goes on to the end of the directory.
C9_WarningForEveryUnreadable ==
    (cmd[1] \in {"search", "similar"} /\ Finished(1) /\ dirExists) =>
        /\ idx = Len(listing)
        /\ \A name \in DOMAIN dir : Unreadable(name) => HasLine(1, "could_not_read", name)

\* C9 (amended): an unreadable file never aborts a scan.  similar warns about
\* every unreadable file, keeps it out of the corpus, and its corpus is the
\* readable files in enumeration order; search warns about an unreadable file
\* exactly when its name does not hold the query (one whose name matches is
\* reported by filename and never read).  Apart from the warnings, search
\* prints what it prints with the unreadable files out of the content scan.
C9_UnreadableSkipped ==
    (cmd[1] \in {"search", "similar"} /\ Finished(1) /\ dirExists) =>
        /\ idx = Len(listing)
        /\ cmd[1] = "similar" =>
              /\ [k \in 1..Len(LinesOf(1, "could_not_read")) |->
                      LinesOf(1, "could_not_read")[k].name] = UnreadableListed
              /\ filepaths = ReadableUpTo(Len(listing))
              /\ texts = [k \in 1..Len(filepaths) |-> StrStrip(dir[filepaths[k]].content)]
              /\ (pc[1] = "error" => Vocabulary(query, texts) = {})
        /\ cmd[1] = "search" =>
              /\ pc[1] = "done"
              /\ \A name \in DOMAIN dir :
                    HasLine(1, "could_not_read", name) <=>
                        (Unreadable(name) /\ ~NameMatches(query, name))
              /\ SelectSeq(out[1], NotWarning)
                    = SearchOutput(query, WithoutUnreadable(dir), listing)

\* C9 witness: a scan met an unreadable file before another file, warned about
\* it and still reported the later file.
C9_Witness ==
    /\ cmd[1] \in {"search", "similar"} /\ pc[1] = "done"
    /\ \E k, l \in 1..Len(out[1]) :
          /\ k < l
          /\ out[1][k].t = "could_not_read"
          /\ out[1][l].t \in {"content_match", "result"}
          /\ Pos(out[1][k].name) < Pos(out[1][l].name)

====
